---- MODULE Spec2Model ----
(***************************************************************************)
(* PuzzleFS: the OCI image directory (oci-layout, blobs/sha256, index.json) *)
(* with Image::new / open / put_blob / add_tag / put_index /               *)
(* fill_from_chunk, and the FUSE read path on top of it.                   *)
(***************************************************************************)
EXTENDS Integers, Sequences, FiniteSets, TLC

\* ------------------------------------------------------------------ bounds
\* most blob files the directory holds
MaxBlobs == 2
\* most descriptors index.json holds
MaxManifests == 2
\* most ctrl-C signals a mount receives
MaxSignals == 2
\* longest host file the builder is given
MaxFileLen == 3

\* the byte alphabet
Byte == {0, 1}

BytesUpTo(n) == UNION {[1..k -> Byte] : k \in 0..n}

\* the byte strings callers hand to put_blob
Inputs == BytesUpTo(1)

Min(a, b) == IF a < b THEN a ELSE b

\* Option<T> as a sequence of length at most one
None == <<>>
Some(x) == <<x>>

\* ------------------------------------------------------- program constants
PUZZLEFS_IMAGE_LAYOUT_VERSION == "puzzlefs-dev"
NAME_ANNOTATION == "org.opencontainers.image.ref.name"

\* a version string other images carry in oci-layout
ForeignLayoutVersion == "1.0.0"

\* ------------------------------------------------------------------ digests
\* Digest width in hex digits (64 in the program, scaled down here).
DigestHexLen == 4
DigestSpace == 16 * 16 * 16 * 16

HexDigits == <<"0", "1", "2", "3", "4", "5", "6", "7",
               "8", "9", "a", "b", "c", "d", "e", "f">>

RECURSIVE Pow16(_)
Pow16(n) == IF n = 0 THEN 1 ELSE 16 * Pow16(n - 1)

\* Digest::to_string / hex::encode: lowercase hex, most significant digit first
ToHex(d) == [i \in 1..DigestHexLen |->
               HexDigits[((d \div Pow16(DigestHexLen - i)) % 16) + 1]]

\* Positional code of a byte string: one-to-one on byte strings.
RECURSIVE Enc(_)
Enc(b) == IF b = <<>> THEN 0 ELSE (Head(b) + 1) + 3 * Enc(Tail(b))

\* Sha256::new / update / finalize, as a collision-free hash of the bytes
Sha256(b) == Enc(b) % DigestSpace

\* get_fs_verity_digest: the integrity fingerprint of the bytes
get_fs_verity_digest(b) == (7 * Enc(b) + 3) % DigestSpace

\* check_fs_verity(file, expected): the opened file's fingerprint matches
check_fs_verity(content, expected) == get_fs_verity_digest(content) = expected

\* ------------------------------------------------------------------- codecs
Codecs == {"noop", "zstd"}
MediaTypes == {"chunk", "rootfs"}

\* C::compress ... end(): the bytes the compressor leaves in the file
Compress(c, b) == IF c = "noop" THEN b ELSE <<1>> \o b

\* a decompressor that hands out the stored bytes as they are
Decompress_stored(c, s) == s

\* C::decompress: the uncompressed stream of a stored file
Decompress(c, s) == IF c = "noop" THEN s ELSE Tail(s)

\* C::append_extension(MT::name())
append_extension(c, mt) == IF c = "noop" THEN <<mt>> ELSE <<mt, "+zstd">>

\* -------------------------------------------------------------- descriptors
NoAnnotations == [k \in {} |-> ""]

Descriptor_new(digest, size, media_type, fs_verity_digest) ==
    [digest |-> digest, size |-> size, media_type |-> media_type,
     annotations |-> NoAnnotations, fs_verity_digest |-> fs_verity_digest]

set_name(d, name) ==
    [d EXCEPT !.annotations =
        [k \in DOMAIN @ \cup {NAME_ANNOTATION} |->
            IF k = NAME_ANNOTATION THEN name ELSE @[k]]]

get_name(d) ==
    IF NAME_ANNOTATION \in DOMAIN d.annotations
    THEN Some(d.annotations[NAME_ANNOTATION]) ELSE None

remove_name(d) ==
    [d EXCEPT !.annotations = [k \in DOMAIN @ \ {NAME_ANNOTATION} |-> @[k]]]

\* ------------------------------------------------------------ index.json
\* Index::default
Index_default == [manifests |-> <<>>]

\* serde of one descriptor: the annotation map becomes a list of members
DescToJson(d) ==
    [digest |-> ToHex(d.digest), size |-> d.size, media_type |-> d.media_type,
     annotations |-> {<<k, d.annotations[k]>> : k \in DOMAIN d.annotations},
     fs_verity_digest |-> ToHex(d.fs_verity_digest)]

RECURSIVE FromHex(_)
FromHex(h) ==
    IF h = <<>> THEN 0
    ELSE 16 * FromHex(SubSeq(h, 1, Len(h) - 1))
         + (CHOOSE v \in 0..15 : HexDigits[v + 1] = h[Len(h)])

DescFromJson(j) ==
    [digest |-> FromHex(j.digest), size |-> j.size, media_type |-> j.media_type,
     annotations |-> [k \in {p[1] : p \in j.annotations} |->
                         (CHOOSE p \in j.annotations : p[1] = k)[2]],
     fs_verity_digest |-> FromHex(j.fs_verity_digest)]

\* Index::write: the file content written for an index
Index_write(i) ==
    Some([m \in 1..Len(i.manifests) |-> DescToJson(i.manifests[m])])

\* A file whose text stops before the closing brackets carries a second
\* element after its members; serde_json refuses it.
CutShort == "eof"

well_formed(file) == Len(file) = 1

\* Index::open: the index read from the file, or an error when there is none
\* or when its text does not parse
Index_open(file) ==
    IF file = None \/ ~well_formed(file)
    THEN [ok |-> FALSE, index |-> Index_default]
    ELSE [ok |-> TRUE,
          index |-> [manifests |->
                       [m \in 1..Len(file[1]) |-> DescFromJson(file[1][m])]]]

\* Index::find_tag
find_tag(i, tag) ==
    LET hits == {m \in 1..Len(i.manifests) : get_name(i.manifests[m]) = Some(tag)}
    IN  IF hits = {} THEN None
        ELSE Some(i.manifests[CHOOSE m \in hits : \A n \in hits : m <= n])

\* -------------------------------------------------------------------- state
VARIABLES
    oci_layout,   \* the oci-layout file: None, or Some(its JSON object)
    blobs,        \* blobs/sha256: file name -> file content
    index_json,   \* the index.json file: None, or Some(serialized manifests)
    image,        \* TRUE once Image::new or Image::open returned an Image
    inodes,       \* the metadata of the built rootfs: ino -> inode
    original,     \* ino -> the bytes of the host file the inode was built from
    probe,        \* the first lookup, getattr, read or readdir the adapter
                  \* answered since the build, with its reply; None before
    scratch,      \* a temporary file a codec wrote: None, or Some of the
                  \* codec, the bytes written through it and the file
    mnt,          \* the run of the mount command: its options, where its
                  \* processes and threads are, its channel and its pipes
    verity_map,   \* digest -> fingerprint, as recorded from put_blob's descriptors
    tmp_files,    \* the temporary files in the OCI directory, by name
    lastOp        \* the last call and what it returned

vars == <<oci_layout, blobs, index_json, image, inodes, original, probe,
         scratch, mnt, verity_map, tmp_files, lastOp>>

NoBlobs == [n \in {} |-> <<>>]
NoVerity == [d \in {} |-> 0]
NoInodes == [i \in {} |-> <<>>]

\* no mount command has run: main is idle, there is no FUSE thread, no
\* daemon child, nothing in the channel or in the pipes
NoMount ==
    [pc |-> "idle", foreground |-> FALSE, init_pipe |-> None,
     chan |-> 0, events |-> {}, ctrlc |-> 0, fuse |-> "none", guard |-> "none",
     child |-> "none", unnamed_pipe |-> 0, named_pipe |-> 0,
     late |-> {}]

\* lastOp: the call, its arguments, its result, and in prev what the call
\* before was when the two belong together (put_blob of the same input,
\* add_tag of the same name, Image::new before Image::open); None otherwise.
Op(op, args, ok, err, ret, prev) ==
    [op |-> op, args |-> args, ok |-> ok, err |-> err, ret |-> ret, prev |-> prev]

NoOp == Op("none", <<>>, TRUE, "", <<>>, None)

\* struct OCILayout, serialized with its field renamed
OCILayout(version) == [imageLayoutVersion |-> version]

\* Image::blob_path().join(digest.to_string())
blob_path(digest) == ToHex(digest)

Init ==
    /\ oci_layout \in {None, Some(OCILayout(ForeignLayoutVersion))}
    /\ blobs = NoBlobs
    /\ index_json = None
    /\ image = FALSE
    /\ inodes = NoInodes
    /\ original = NoInodes
    /\ probe = None
    /\ scratch = None
    /\ mnt = NoMount
    /\ verity_map = NoVerity
    /\ tmp_files = {}
    /\ lastOp = NoOp

\* ------------------------------------------------------------- Image::new
\* fs::create_dir_all(blob_path): an existing directory keeps its files
create_blob_dir(store) == store

\* File::create(oci-layout) and to_writer(layout): the file is rewritten
write_layout(old) == Some(OCILayout(PUZZLEFS_IMAGE_LAYOUT_VERSION))

ImageNew ==
    /\ oci_layout' = write_layout(oci_layout)
    /\ blobs' = create_blob_dir(blobs)
    /\ image' = TRUE
    /\ lastOp' = Op("new", <<>>, TRUE, "", <<>>, None)
    /\ UNCHANGED <<tmp_files, mnt, scratch, probe, inodes, original, index_json, verity_map>>

\* ------------------------------------------------------------ Image::open
version_rejected_inverted(version) == version = PUZZLEFS_IMAGE_LAYOUT_VERSION

\* layout.version != PUZZLEFS_IMAGE_LAYOUT_VERSION
version_rejected(version) == version # PUZZLEFS_IMAGE_LAYOUT_VERSION

Image_open(layout) ==
    IF layout = None THEN [ok |-> FALSE, err |-> "Io"]
    ELSE IF version_rejected(layout[1].imageLayoutVersion)
         THEN [ok |-> FALSE, err |-> "InvalidImageVersion"]
         ELSE [ok |-> TRUE, err |-> ""]

ImageOpen ==
    LET r == Image_open(oci_layout) IN
    /\ image' = (image \/ r.ok)
    /\ lastOp' = Op("open", [layout |-> oci_layout], r.ok, r.err, <<>>,
                    IF lastOp.op = "new" THEN Some([after |-> "new"])
                    ELSE IF lastOp.op = "put_index"
                         THEN Some([after |-> "put_index",
                                    manifests |-> lastOp.args.manifests])
                         ELSE None)
    /\ UNCHANGED <<tmp_files, mnt, scratch, probe, inodes, original, oci_layout, blobs, index_json, verity_map>>

\* ---------------------------------------------------------- Image::put_blob
\* io::copy(&mut buf, &mut compressed): the number of bytes copied
copied_size(x, compressed_data) == Len(x)

blob_digest_of_input(x, compressed_data) == Sha256(x)

\* hasher.update(&compressed_data[..]); hasher.finalize()
blob_digest(x, compressed_data) == Sha256(compressed_data)

path_exists_never(store, path) == FALSE

\* path.exists()
path_exists(store, path) == path \in DOMAIN store

existing_differs_always(existing, digest) == TRUE

existing_differs_never(existing, digest) == FALSE

\* existing_digest != digest
existing_differs(existing, digest) == Sha256(existing) # digest

\* tmp.persist(path): the temporary file is renamed to path
persist(store, path, data) ==
    [n \in DOMAIN store \cup {path} |-> IF n = path THEN data ELSE store[n]]

\* the name NamedTempFile gives its file in the OCI directory
TmpName == ".tmp"

\* NamedTempFile::new_in(&self.oci_dir)
tmp_create(files) == files \cup {TmpName}

tmp_kept(files) == files

\* tmp goes out of scope: dropping a NamedTempFile removes its file
tmp_drop(files) == files \ {TmpName}

\* tmp.persist(path): the rename takes the temporary name away
tmp_persist(files) == files \ {TmpName}

put_blob(store, x, c, mt) ==
    LET compressed_data == Compress(c, x)
        size == copied_size(x, compressed_data)
        digest == blob_digest(x, compressed_data)
        media_type == append_extension(c, mt)
        descriptor == Descriptor_new(digest, size, media_type,
                                     get_fs_verity_digest(compressed_data))
        path == blob_path(descriptor.digest)
    IN  IF path_exists(store, path)
        THEN IF existing_differs(store[path], digest)
             THEN [ok |-> FALSE, err |-> "AlreadyExists", store |-> store,
                   path |-> path, persisted |-> FALSE, desc |-> None,
                   tmp |-> tmp_drop(tmp_create({}))]
             ELSE [ok |-> TRUE, err |-> "", store |-> store,
                   path |-> path, persisted |-> FALSE, desc |-> Some(descriptor),
                   tmp |-> tmp_drop(tmp_create({}))]
        ELSE [ok |-> TRUE, err |-> "",
              store |-> persist(store, path, compressed_data),
              path |-> path, persisted |-> TRUE, desc |-> Some(descriptor),
              tmp |-> tmp_persist(tmp_create({}))]

\* The calls of put_blob that can end it with an I/O error
IoSteps == {"new_in", "reopen", "copy", "read_to_end", "open_existing", "persist"}

\* put_blob ended by an I/O error at `step`: the `?` returns, and tmp, if it
\* was created, goes out of scope
put_blob_io_error(store, x, c, mt, step) ==
    [ok |-> FALSE, err |-> "Io", store |-> store,
     path |-> blob_path(blob_digest(x, Compress(c, x))),
     persisted |-> FALSE, desc |-> None,
     tmp |-> IF step = "new_in" THEN {} ELSE tmp_drop(tmp_create({}))]

\* the verity map a builder keeps from the descriptors put_blob returned
record_verity(map, r) ==
    IF r.ok
    THEN [d \in DOMAIN map \cup {r.desc[1].digest} |->
             IF d = r.desc[1].digest THEN r.desc[1].fs_verity_digest ELSE map[d]]
    ELSE map

PutBlob ==
    /\ image
    /\ \E x \in Inputs, c \in Codecs, mt \in MediaTypes :
         LET r == put_blob(blobs, x, c, mt)
             args == [x |-> x, c |-> c, mt |-> mt]
         IN
         /\ Cardinality(DOMAIN r.store) <= MaxBlobs
         /\ blobs' = r.store
         /\ verity_map' = record_verity(verity_map, r)
         /\ tmp_files' = tmp_files \cup r.tmp
         /\ lastOp' = Op("put_blob", args, r.ok, r.err,
                         [path |-> r.path, desc |-> r.desc,
                          persisted |-> r.persisted,
                          existed |-> r.path \in DOMAIN blobs,
                          files |-> Cardinality(DOMAIN blobs)],
                         IF lastOp.op = "put_blob" /\ lastOp.args = args
                         THEN Some([ok |-> lastOp.ok, desc |-> lastOp.ret.desc,
                                    files |-> lastOp.ret.files])
                         ELSE None)
    /\ UNCHANGED <<mnt, scratch, probe, inodes, original, oci_layout, index_json, image>>

\* put_blob on a directory where one of its file operations fails
PutBlobIoError ==
    /\ image
    /\ \E x \in Inputs, c \in Codecs, mt \in MediaTypes, step \in IoSteps :
         LET r == put_blob_io_error(blobs, x, c, mt, step) IN
         /\ step = "open_existing" => path_exists(blobs, r.path)
         /\ step = "persist" => ~path_exists(blobs, r.path)
         /\ tmp_files' = tmp_files \cup r.tmp
         /\ lastOp' = Op("put_blob", [x |-> x, c |-> c, mt |-> mt, step |-> step],
                         r.ok, r.err,
                         [path |-> r.path, desc |-> r.desc,
                          persisted |-> r.persisted,
                          existed |-> r.path \in DOMAIN blobs,
                          files |-> Cardinality(DOMAIN blobs)],
                         None)
    /\ UNCHANGED <<mnt, scratch, probe, inodes, original, oci_layout, blobs,
                   index_json, image, verity_map>>

\* ------------------------------------------------------ Image::open_raw_blob
open_raw_blob_unverified(store, digest, verity) ==
    IF blob_path(digest) \notin DOMAIN store
    THEN [ok |-> FALSE, err |-> "Io", steps |-> <<"open">>]
    ELSE [ok |-> TRUE, err |-> "", file |-> store[blob_path(digest)],
          steps |-> <<"open">>]

open_raw_blob(store, digest, verity) ==
    IF blob_path(digest) \notin DOMAIN store
    THEN [ok |-> FALSE, err |-> "Io", steps |-> <<"open">>]
    ELSE IF verity # None /\ ~check_fs_verity(store[blob_path(digest)], verity[1])
         THEN [ok |-> FALSE, err |-> "Io", steps |-> <<"open", "check_fs_verity">>]
         ELSE [ok |-> TRUE, err |-> "", file |-> store[blob_path(digest)],
               steps |-> IF verity = None THEN <<"open">>
                         ELSE <<"open", "check_fs_verity">>]

\* ------------------------------------------- Image::get_index / put_index
get_index(file) == Index_open(file)

put_index_unnamed(i) ==
    Index_write([manifests |->
                   [m \in 1..Len(i.manifests) |-> remove_name(i.manifests[m])]])

put_index(i) == Index_write(i)

\* ----------------------------------------------------------- Image::add_tag
untag_nothing(m, name) == m

\* the loop body: a descriptor holding this tag loses its name
untag(m, name) == IF get_name(m) = Some(name) THEN remove_name(m) ELSE m

untag_all_dropping(manifests, name) ==
    SelectSeq(manifests, LAMBDA m : get_name(m) # Some(name))

\* for m in index.manifests.iter_mut()
untag_all(manifests, name) ==
    [m \in 1..Len(manifests) |-> untag(manifests[m], name)]

blob_exists_unchecked(store, desc) == TRUE

\* check that the blob exists...
blob_exists(store, desc) == open_raw_blob(store, desc.digest, None).ok

add_tag(store, file, name, desc) ==
    IF ~blob_exists(store, desc)
    THEN [ok |-> FALSE, err |-> "Io", file |-> file]
    ELSE LET got == get_index(file)
             index == IF got.ok THEN got.index ELSE Index_default
             untagged == untag_all(index.manifests, name)
             pushed == Append(untagged, set_name(desc, name))
         IN  [ok |-> TRUE, err |-> "", file |-> put_index([manifests |-> pushed])]

Tags == {"v1", "v2"}

\* a digest no blob has
MissingDigest == DigestSpace - 1

\* The descriptors of the blobs in the directory, as put_blob returns them
\* for a rootfs manifest
BlobDescs(store) ==
    {Descriptor_new(Sha256(store[n]), Len(store[n]), <<"rootfs">>,
                    get_fs_verity_digest(store[n])) : n \in DOMAIN store}

\* The descriptors callers hand to add_tag: one per blob in the directory and
\* one whose blob is missing, each bare or already carrying a name.
DescPool(store) ==
    LET bare == BlobDescs(store)
                \cup {Descriptor_new(MissingDigest, 0, <<"rootfs">>, 0)}
    IN  bare \cup {set_name(d, "v2") : d \in bare}

\* The descriptors callers push on an index they write: named ones
NamedDescs(store) == {set_name(d, t) : d \in BlobDescs(store), t \in Tags}

ManifestCount(file) == IF file = None THEN 0 ELSE Len(file[1])

AddTag ==
    /\ image
    /\ ManifestCount(index_json) < MaxManifests
    /\ \E name \in Tags, desc \in DescPool(blobs) :
         LET r == add_tag(blobs, index_json, name, desc) IN
         /\ index_json' = r.file
         /\ lastOp' = Op("add_tag", [name |-> name, digest |-> desc.digest],
                         r.ok, r.err, <<>>,
                         IF lastOp.op = "add_tag" /\ lastOp.ok
                            /\ lastOp.args.name = name
                         THEN Some(lastOp.args.digest) ELSE None)
    /\ UNCHANGED <<tmp_files, mnt, scratch, probe, inodes, original, oci_layout, blobs, image, verity_map>>

\* the indexes callers write: empty, one named descriptor, or two descriptors
\* under the same tag
IndexInputs(store) ==
    {<<>>} \cup {<<a>> : a \in NamedDescs(store)}
           \cup {<<set_name(a, t), set_name(b, t)>> :
                    a \in BlobDescs(store), b \in BlobDescs(store), t \in Tags}

PutIndex ==
    /\ image
    /\ \E ms \in IndexInputs(blobs) :
         /\ index_json' = put_index([manifests |-> ms])
         /\ lastOp' = Op("put_index", [manifests |-> ms], TRUE, "", <<>>, None)
    /\ UNCHANGED <<tmp_files, mnt, scratch, probe, inodes, original, oci_layout, blobs, image, verity_map>>

\* Image::get_index, by the handle that wrote the index or by one that
\* Image::open returned after the write; prev is the index put_index wrote
\* when this call follows it, directly or after the Image::open.
GetIndex ==
    /\ image
    /\ LET r == get_index(index_json) IN
       lastOp' = Op("get_index", <<>>, r.ok, IF r.ok THEN "" ELSE "Io",
                    [manifests |-> r.index.manifests],
                    IF lastOp.op = "put_index"
                    THEN Some([manifests |-> lastOp.args.manifests,
                               via |-> "put_index"])
                    ELSE IF lastOp.op = "open" /\ lastOp.ok /\ lastOp.prev # None
                            /\ lastOp.prev[1].after = "put_index"
                         THEN Some([manifests |-> lastOp.prev[1].manifests,
                                    via |-> "open"])
                         ELSE None)
    /\ UNCHANGED <<tmp_files, mnt, oci_layout, blobs, index_json, image, inodes, original,
                   probe, scratch, verity_map>>

\* ------------------------------------------------- Image::fill_from_chunk
\* Image::open_compressed_blob::<C>
open_compressed_blob(store, c, digest, verity_opt) ==
    LET f == open_raw_blob(store, digest, verity_opt) IN
    IF f.ok THEN [ok |-> TRUE, err |-> "", steps |-> f.steps,
                  stream |-> Decompress(c, f.file)]
    ELSE [ok |-> FALSE, err |-> f.err, steps |-> f.steps]

seek_start_of_chunk(chunk, addl_offset) == chunk.offset

\* blob.seek(SeekFrom::Start(..)): the position the stream is left at
seek_start(chunk, addl_offset) == chunk.offset + addl_offset

\* blob.read(buf) on a file at pos: up to buf.len() bytes, fewer at the end
stream_read(stream, pos, buflen) ==
    SubSeq(stream, pos + 1, Min(pos + buflen, Len(stream)))

\* verity.get(&digest.underlying())
verity_get(map, digest) == IF digest \in DOMAIN map THEN Some(map[digest]) ELSE None

fill_from_chunk(store, chunk, addl_offset, buflen, verity_data) ==
    LET digest == chunk.digest
        entry == IF verity_data = None THEN None
                 ELSE verity_get(verity_data[1], digest)
    IN  IF verity_data # None /\ entry = None
        THEN [ok |-> FALSE, err |-> "InvalidFsVerityData", steps |-> <<>>,
              data |-> <<>>]
        ELSE LET blob == open_compressed_blob(store, "noop", digest, entry) IN
             IF ~blob.ok
             THEN [ok |-> FALSE, err |-> blob.err, steps |-> blob.steps,
                   data |-> <<>>]
             ELSE [ok |-> TRUE, err |-> "",
                   steps |-> blob.steps \o <<"seek", "read">>,
                   data |-> stream_read(blob.stream,
                                        seek_start(chunk, addl_offset), buflen)]

FillFromChunk(chunk, addl_offset, buflen, verity_data) ==
    LET r == fill_from_chunk(blobs, chunk, addl_offset, buflen, verity_data) IN
    /\ image
    /\ lastOp' = Op("fill_from_chunk",
                    [chunk |-> chunk, addl_offset |-> addl_offset,
                     buflen |-> buflen, verity_data |-> verity_data],
                    r.ok, r.err, [steps |-> r.steps, data |-> r.data], None)
    /\ UNCHANGED <<tmp_files, mnt, scratch, probe, inodes, original, oci_layout, blobs, index_json, image, verity_map>>

\* the digests chunk references carry: those of the blobs, and a missing one
ChunkDigests == {FromHex(n) : n \in DOMAIN blobs} \cup {MissingDigest}

\* a builder's chunk reference to a whole blob, read without verity data
ReadWholeChunk ==
    \E d \in ChunkDigests :
        FillFromChunk([digest |-> d, offset |-> 0, length |-> 1], 0, 1, None)

\* <<offset, length>> of the chunks that lie inside a two-byte blob
ChunkShapes == {<<0, 1>>, <<0, 2>>, <<1, 1>>}

\* any chunk reference, any buffer, with and without verity data
ReadAnyChunk ==
    \E d \in ChunkDigests, shape \in ChunkShapes, buflen \in 1..2 :
      \E addl \in 0..(shape[2] - 1),
         v \in {None, Some(verity_map),
                Some([k \in DOMAIN verity_map \ {d} |-> verity_map[k]])} :
        FillFromChunk([digest |-> d, offset |-> shape[1], length |-> shape[2]],
                      addl, buflen, v)

\* ------------------------------------------------------ the disk under it
\* One byte of a blob file changes on disk.
CorruptBlob ==
    /\ \E n \in DOMAIN blobs : \E i \in 1..Len(blobs[n]) :
         blobs' = [blobs EXCEPT ![n][i] = 1 - @]
    /\ lastOp' = Op("corrupt", <<>>, TRUE, "", <<>>, None)
    /\ UNCHANGED <<tmp_files, mnt, scratch, probe, inodes, original, oci_layout, index_json, image, verity_map>>

\* index.json is left cut short after its last member (a write that did not
\* finish, a full disk): every descriptor is still in the file, the closing
\* brackets are not.
TearIndex ==
    /\ index_json # None
    /\ well_formed(index_json)
    /\ index_json[1] # <<>>
    /\ index_json' = <<index_json[1], CutShort>>
    /\ lastOp' = Op("tear_index", <<>>, TRUE, "", <<>>, None)
    /\ UNCHANGED <<tmp_files, mnt, scratch, probe, inodes, original, oci_layout, blobs, image, verity_map>>

Next ==
    \/ ImageNew
    \/ ImageOpen
    \/ PutBlob
    \/ AddTag
    \/ PutIndex
    \/ ReadWholeChunk

Spec == Init /\ [][Next]_vars

\* Blobs and the index written by add_tag and put_index, without the reads.
NextTagging ==
    \/ ImageNew
    \/ PutBlob
    \/ AddTag
    \/ PutIndex

SpecTagging == Init /\ [][NextTagging]_vars

\* The blob store on a disk that can corrupt blob files, without the index.
NextDisk ==
    \/ ImageNew
    \/ ImageOpen
    \/ PutBlob
    \/ ReadAnyChunk
    \/ CorruptBlob

SpecDisk == Init /\ [][NextDisk]_vars

\* put_blob on a disk that can corrupt blob files and fail file operations.
NextPut ==
    \/ ImageNew
    \/ PutBlob
    \/ PutBlobIoError
    \/ CorruptBlob

SpecPut == Init /\ [][NextPut]_vars

\* The index file, written whole and read back.
NextIndex ==
    \/ ImageNew
    \/ ImageOpen
    \/ PutBlob
    \/ PutIndex
    \/ GetIndex

SpecIndex == Init /\ [][NextIndex]_vars

\* Tagging over an index file that can be cut short.
NextTags ==
    \/ ImageNew
    \/ PutBlob
    \/ AddTag
    \/ TearIndex

SpecTags == Init /\ [][NextTags]_vars

\* ------------------------------------------------------------ the builder
Max(a, b) == IF a > b THEN a ELSE b

RECURSIVE SumLengths(_)
SumLengths(chunks) ==
    IF chunks = <<>> THEN 0 ELSE Head(chunks).length + SumLengths(Tail(chunks))

\* The chunker's cuts of a byte string: every way to split it into
\* non-empty pieces, as the sequence of piece lengths.
RECURSIVE Cuts(_)
Cuts(n) ==
    IF n = 0 THEN {<<>>}
    ELSE UNION {{<<k>> \o rest : rest \in Cuts(n - k)} : k \in 1..n}

\* build_initial_rootfs, for one regular file: each chunk goes through
\* put_blob with the identity codec and is referenced whole, from offset 0.
RECURSIVE put_chunks(_, _, _)
put_chunks(store, content, cut) ==
    IF cut = <<>> THEN [ok |-> TRUE, store |-> store, chunks |-> <<>>]
    ELSE LET piece == SubSeq(content, 1, Head(cut))
             r == put_blob(store, piece, "noop", "chunk")
         IN  IF ~r.ok THEN [ok |-> FALSE, store |-> r.store, chunks |-> <<>>]
             ELSE LET rest == put_chunks(r.store,
                                         SubSeq(content, Head(cut) + 1, Len(content)),
                                         Tail(cut))
                  IN  [ok |-> rest.ok, store |-> rest.store,
                       chunks |-> <<[digest |-> r.desc[1].digest, offset |-> 0,
                                     length |-> Len(piece)]>> \o rest.chunks]

ROOT_INO == 1
FILE_INO == 2

BuildRootfs ==
    /\ image
    /\ inodes = NoInodes
    /\ \E content \in BytesUpTo(MaxFileLen) : \E cut \in Cuts(Len(content)) :
         LET r == put_chunks(blobs, content, cut) IN
         /\ r.ok
         /\ Cardinality(DOMAIN r.store) <= MaxBlobs
         /\ blobs' = r.store
         /\ inodes' = [i \in {ROOT_INO, FILE_INO} |->
                         IF i = ROOT_INO
                         THEN [mode |-> "Dir", entries |-> <<<<"a.txt", FILE_INO>>>>]
                         ELSE [mode |-> "File", chunks |-> r.chunks]]
         /\ original' = [i \in {FILE_INO} |-> content]
         /\ lastOp' = Op("build", <<>>, TRUE, "", <<>>, None)
    /\ UNCHANGED <<tmp_files, mnt, scratch, probe, oci_layout, index_json, image, verity_map>>

\* --------------------------------------------------------- the read path
\* PuzzleFS::find_inode
find_inode(table, ino) ==
    IF ino \in DOMAIN table THEN [ok |-> TRUE, inode |-> table[ino]]
    ELSE [ok |-> FALSE, err |-> "ENOENT"]

\* file_read, the walk over the chunk list: chunk_start runs over the file
\* offsets of the chunks, acc is what the buffer holds so far.
RECURSIVE read_chunks(_, _, _, _, _, _)
read_chunks(store, chunks, chunk_start, offset, end, acc) ==
    IF chunks = <<>> THEN [ok |-> TRUE, err |-> "", data |-> acc]
    ELSE LET chunk == Head(chunks)
             chunk_end == chunk_start + chunk.length
         IN  IF chunk_end <= offset \/ chunk_start >= end
             THEN read_chunks(store, Tail(chunks), chunk_end, offset, end, acc)
             ELSE LET addl_offset == Max(offset, chunk_start) - chunk_start
                      n == Min(chunk.length - addl_offset,
                               (end - offset) - Len(acc))
                      r == fill_from_chunk(store, chunk, addl_offset, n, None)
                  IN  IF ~r.ok THEN [ok |-> FALSE, err |-> "EIO", data |-> <<>>]
                      ELSE IF Len(r.data) < n
                           THEN [ok |-> FALSE, err |-> "EIO", data |-> <<>>]
                           ELSE read_chunks(store, Tail(chunks), chunk_end,
                                            offset, end, acc \o r.data)

\* file_read(oci, inode, offset, buf)
file_read(store, inode, offset, buflen) ==
    IF inode.mode # "File" THEN [ok |-> FALSE, err |-> "EINVAL", data |-> <<>>]
    ELSE LET size == SumLengths(inode.chunks)
             end == Min(offset + buflen, size)
         IN  IF offset >= size THEN [ok |-> TRUE, err |-> "", data |-> <<>>]
             ELSE read_chunks(store, inode.chunks, 0, offset, end, <<>>)

\* Fuse::_read: the buffer, truncated to what file_read filled
fuse_read(store, table, ino, offset, size) ==
    LET found == find_inode(table, ino) IN
    IF ~found.ok THEN [ok |-> FALSE, err |-> found.err, data |-> <<>>]
    ELSE file_read(store, found.inode, offset, size)

\* Filesystem::read: reply.data or reply.error
FuseRead ==
    /\ inodes # NoInodes
    /\ \E ino \in 1..3, offset \in 0..MaxFileLen, size \in 0..(MaxFileLen + 1) :
         LET r == fuse_read(blobs, inodes, ino, offset, size) IN
         lastOp' = Op("read", [ino |-> ino, offset |-> offset, size |-> size],
                      r.ok, r.err, [data |-> r.data], None)
    /\ UNCHANGED <<tmp_files, mnt, scratch, probe, oci_layout, blobs, index_json, image, inodes, original,
                   verity_map>>

\* ------------------------------------------- the adapter's other handlers
\* The handlers of "puzzlefs is readonly, so we can ignore a bunch of
\* requests": each one is reply.error(Errno::EROFS).
MutatingOps == {"setattr", "mknod", "mkdir", "unlink", "rmdir", "symlink",
                "rename", "link", "write", "create", "setxattr", "removexattr"}
RejectedOps == MutatingOps \cup {"flush", "fsync", "fsyncdir", "getlk", "setlk"}

\* what the fuse crate's default handlers reply
rejected_reply_default(op) == [ok |-> FALSE, err |-> "ENOSYS"]

rejected_reply(op) == [ok |-> FALSE, err |-> "EROFS"]

FuseRejectedOf(ops, inos) ==
    /\ inodes # NoInodes
    /\ \E op \in ops, ino \in inos :
         LET r == rejected_reply(op) IN
         lastOp' = Op(op, [ino |-> ino], r.ok, r.err, <<>>, None)
    /\ UNCHANGED <<tmp_files, mnt, scratch, probe, oci_layout, blobs, index_json, image, inodes, original,
                   verity_map>>

FuseRejected == FuseRejectedOf(RejectedOps, 1..3)

\* Open flags are sets of flag bits, each bit by its name; O_RDONLY is the
\* empty set.  OFlag knows the named ones; 0x20 is a bit it has no name for
\* and 0x80000000 is the top bit of the u32.
O_RDONLY == {}
OFlagBits == {"O_WRONLY", "O_RDWR", "O_CREAT", "O_TRUNC", "O_APPEND",
              "O_NONBLOCK", "O_DIRECTORY", "O_PATH"}
FlagBits == OFlagBits \cup {"0x20", "0x80000000"}

\* flags_i.try_into().unwrap(): u32 to c_int
flags_fit_c_int(flags_i) == "0x80000000" \notin flags_i

\* OFlag::from_bits_truncate
from_bits_truncate(bits) == bits \cap OFlagBits

allowed_flags == O_RDONLY \cup {"O_PATH", "O_NONBLOCK", "O_DIRECTORY"}

\* Fuse::_open
fuse_open(flags_i) ==
    IF ~flags_fit_c_int(flags_i)
    THEN [ok |-> FALSE, err |-> "panic", fh |-> 0, flags |-> {}]
    ELSE LET flags == from_bits_truncate(flags_i) IN
         IF ~(flags \subseteq allowed_flags)
         THEN [ok |-> FALSE, err |-> "EROFS", fh |-> 0, flags |-> {}]
         ELSE [ok |-> TRUE, err |-> "", fh |-> 0, flags |-> flags_i]

\* the flag words requests carry: at most two bits set
FlagInputs == {f \in SUBSET FlagBits : Cardinality(f) <= 2}

\* Filesystem::open and Filesystem::opendir
FuseOpenWith(flag_words) ==
    /\ inodes # NoInodes
    /\ \E op \in {"open", "opendir"}, flags_i \in flag_words :
         LET r == fuse_open(flags_i)
             ino == IF op = "open" THEN FILE_INO ELSE ROOT_INO
         IN
         lastOp' = Op(op, [ino |-> ino, flags |-> flags_i], r.ok, r.err,
                      [fh |-> r.fh, flags |-> r.flags], None)
    /\ UNCHANGED <<tmp_files, mnt, scratch, probe, oci_layout, blobs, index_json, image, inodes, original,
                   verity_map>>

FuseOpen == FuseOpenWith(FlagInputs)

\* reply.statfs(blocks, bfree, bavail, files, ffree, bsize, namelen, frsize)
statfs_reply ==
    [blocks |-> 0, bfree |-> 0, bavail |-> 0, files |-> 0, ffree |-> 0,
     bsize |-> 0, namelen |-> 256, frsize |-> 0]

\* Filesystem::statfs
FuseStatfs ==
    /\ inodes # NoInodes
    /\ \E ino \in 1..3 :
         lastOp' = Op("statfs", [ino |-> ino], TRUE, "", statfs_reply, None)
    /\ UNCHANGED <<tmp_files, mnt, scratch, probe, oci_layout, blobs, index_json, image, inodes, original,
                   verity_map>>

\* A built rootfs read through the FUSE adapter.
NextFs ==
    \/ ImageNew
    \/ BuildRootfs
    \/ FuseRead

SpecFs == Init /\ [][NextFs]_vars

\* The adapter's handlers that never reach the image.
NextAdapter ==
    \/ ImageNew
    \/ BuildRootfs
    \/ FuseRejected
    \/ FuseOpen
    \/ FuseStatfs

SpecAdapter == Init /\ [][NextAdapter]_vars

\* ------------------------------------------- lookup, getattr and readdir
\* mode_to_fuse_type
mode_to_fuse_type(inode) ==
    IF inode.mode = "File" THEN "RegularFile" ELSE "Directory"

\* Inode::file_len().unwrap_or(0)
file_len_or_0(inode) ==
    IF inode.mode = "File" THEN SumLengths(inode.chunks) ELSE 0

\* an attribute answer that comes from the inode asked about before, as a
\* cache keyed on nothing would give it
fuse_getattr_cached(table, ino) ==
    LET key == IF lastOp.op = "getattr" /\ lastOp.ok THEN lastOp.args.ino ELSE ino
        found == find_inode(table, key)
    IN  IF ~found.ok THEN [ok |-> FALSE, err |-> found.err, attr |-> <<>>]
        ELSE [ok |-> TRUE, err |-> "",
              attr |-> [ino |-> key, size |-> file_len_or_0(found.inode),
                        blocks |-> 0, kind |-> mode_to_fuse_type(found.inode),
                        nlink |-> 0]]

\* Fuse::_getattr
fuse_getattr(table, ino) ==
    LET found == find_inode(table, ino) IN
    IF ~found.ok THEN [ok |-> FALSE, err |-> found.err, attr |-> <<>>]
    ELSE [ok |-> TRUE, err |-> "",
          attr |-> [ino |-> ino, size |-> file_len_or_0(found.inode),
                    blocks |-> 0, kind |-> mode_to_fuse_type(found.inode),
                    nlink |-> 0]]

\* Inode::dir_lookup
dir_lookup(inode, name) ==
    IF inode.mode # "Dir" THEN [ok |-> FALSE, err |-> "ENOTDIR", ino |-> 0]
    ELSE LET hits == {i \in 1..Len(inode.entries) : inode.entries[i][1] = name} IN
         IF hits = {} THEN [ok |-> FALSE, err |-> "ENOENT", ino |-> 0]
         ELSE [ok |-> TRUE, err |-> "",
               ino |-> inode.entries[CHOOSE i \in hits : TRUE][2]]

\* Fuse::_lookup
fuse_lookup(table, parent, name) ==
    LET dir == find_inode(table, parent) IN
    IF ~dir.ok THEN [ok |-> FALSE, err |-> dir.err, attr |-> <<>>]
    ELSE LET hit == dir_lookup(dir.inode, name) IN
         IF ~hit.ok THEN [ok |-> FALSE, err |-> hit.err, attr |-> <<>>]
         ELSE fuse_getattr(table, hit.ino)

\* Inode::dir_entries
dir_entries(inode) ==
    IF inode.mode # "Dir" THEN [ok |-> FALSE, err |-> "ENOTDIR", entries |-> <<>>]
    ELSE [ok |-> TRUE, err |-> "", entries |-> inode.entries]

\* Fuse::_readdir, the loop from entry index on: reply.add refuses an entry
\* once the reply buffer is full, and the loop stops there
RECURSIVE readdir_from(_, _, _, _, _)
readdir_from(table, entries, index, room, added) ==
    IF index > Len(entries) THEN [ok |-> TRUE, err |-> "", added |-> added]
    ELSE LET found == find_inode(table, entries[index][2]) IN
         IF ~found.ok THEN [ok |-> FALSE, err |-> found.err, added |-> added]
         ELSE IF Len(added) >= room THEN [ok |-> TRUE, err |-> "", added |-> added]
              ELSE readdir_from(table, entries, index + 1, room,
                                Append(added,
                                       [ino |-> entries[index][2], offset |-> index,
                                        kind |-> mode_to_fuse_type(found.inode),
                                        name |-> entries[index][1]]))

\* a listing that ignores the offset it is asked to resume at
fuse_readdir_from_start(table, ino, offset, room) ==
    LET inode == find_inode(table, ino) IN
    IF ~inode.ok THEN [ok |-> FALSE, err |-> inode.err, added |-> <<>>]
    ELSE LET es == dir_entries(inode.inode) IN
         IF ~es.ok THEN [ok |-> FALSE, err |-> es.err, added |-> <<>>]
         ELSE readdir_from(table, es.entries, 1, room, <<>>)

\* Fuse::_readdir
fuse_readdir(table, ino, offset, room) ==
    LET inode == find_inode(table, ino) IN
    IF ~inode.ok THEN [ok |-> FALSE, err |-> inode.err, added |-> <<>>]
    ELSE LET es == dir_entries(inode.inode) IN
         IF ~es.ok THEN [ok |-> FALSE, err |-> es.err, added |-> <<>>]
         ELSE readdir_from(table, es.entries, offset + 1, room, <<>>)

QueryOps == {"lookup", "getattr", "read", "readdir"}

\* A lookup, getattr, read or readdir and its reply; the first one since
\* the build is kept in probe, and when that request comes again prev names
\* the request handled just before.
Answered(op, args, ok, err, ret) ==
    /\ lastOp' = Op(op, args, ok, err, ret,
                    IF probe # None /\ probe[1].op = op /\ probe[1].args = args
                    THEN Some(lastOp.op) ELSE None)
    /\ probe' = IF probe = None
                THEN Some([op |-> op, args |-> args, ok |-> ok, err |-> err,
                           ret |-> ret])
                ELSE probe
    /\ UNCHANGED <<tmp_files, mnt, scratch, oci_layout, blobs, index_json, image, inodes, original,
                   verity_map>>

\* Filesystem::lookup
FuseLookup ==
    /\ inodes # NoInodes
    /\ \E parent \in 1..3, name \in {"a.txt", "b.txt"} :
         LET r == fuse_lookup(inodes, parent, name) IN
         Answered("lookup", [parent |-> parent, name |-> name], r.ok, r.err,
                  [attr |-> r.attr])

\* Filesystem::getattr
FuseGetattr ==
    /\ inodes # NoInodes
    /\ \E ino \in 1..3 :
         LET r == fuse_getattr(inodes, ino) IN
         Answered("getattr", [ino |-> ino], r.ok, r.err, [attr |-> r.attr])

\* Filesystem::read, with a buffer that takes the whole file
FuseReadTail ==
    /\ inodes # NoInodes
    /\ \E ino \in 1..3, offset \in 0..1 :
         LET r == fuse_read(blobs, inodes, ino, offset, MaxFileLen) IN
         Answered("read", [ino |-> ino, offset |-> offset, size |-> MaxFileLen],
                  r.ok, r.err, [data |-> r.data])

\* Filesystem::readdir, with room for one entry in the reply
FuseReaddir ==
    /\ inodes # NoInodes
    /\ \E ino \in 1..3, offset \in 0..1 :
         LET r == fuse_readdir(inodes, ino, offset, 1) IN
         Answered("readdir", [ino |-> ino, offset |-> offset], r.ok, r.err,
                  [added |-> r.added])

\* Filesystem::release and Filesystem::releasedir: reply.ok()
FuseRelease ==
    /\ inodes # NoInodes
    /\ \E op \in {"release", "releasedir"} :
         lastOp' = Op(op, [ino |-> IF op = "release" THEN FILE_INO ELSE ROOT_INO,
                           fh |-> 0],
                      TRUE, "", <<>>, None)
    /\ UNCHANGED <<tmp_files, mnt, scratch, oci_layout, blobs, index_json, image, inodes, original,
                   probe, verity_map>>

\* The read-only requests, between opens, releases and rejected writes.
NextQueries ==
    \/ ImageNew
    \/ BuildRootfs
    \/ FuseLookup
    \/ FuseGetattr
    \/ FuseReadTail
    \/ FuseReaddir
    \/ FuseOpenWith({O_RDONLY, {"O_WRONLY"}})
    \/ FuseRelease
    \/ FuseRejectedOf({"write"}, {FILE_INO})

SpecQueries == Init /\ [][NextQueries]_vars

\* ------------------------------------------------- listing a directory
MaxEntries == 3
MaxRoom == 2

EntryNames == <<"a", "b", "c", "d">>

\* An image whose root directory holds n entries, empty files and empty
\* directories, in the order the directory lists them.
BuildDir ==
    /\ image
    /\ inodes = NoInodes
    /\ \E n \in 0..MaxEntries : \E modes \in [1..n -> {"File", "Dir"}] :
         /\ inodes' = [i \in 1..(n + 1) |->
                         IF i = ROOT_INO
                         THEN [mode |-> "Dir",
                               entries |-> [k \in 1..n |-> <<EntryNames[k], k + 1>>]]
                         ELSE IF modes[i - 1] = "Dir"
                              THEN [mode |-> "Dir", entries |-> <<>>]
                              ELSE [mode |-> "File", chunks |-> <<>>]]
         /\ original' = [i \in {k \in 2..(n + 1) : modes[k - 1] = "File"} |-> <<>>]
         /\ lastOp' = Op("build", [entries |-> n], TRUE, "", <<>>, None)
    /\ UNCHANGED <<tmp_files, mnt, scratch, probe, oci_layout, blobs, index_json, image, verity_map>>

\* Filesystem::readdir at any offset, with a reply buffer that has room for
\* `room` entries. A call at offset 0 opens a listing; prev carries what the
\* calls of the listing have emitted so far.
FuseReaddirAt ==
    /\ inodes # NoInodes
    /\ \E ino \in DOMAIN inodes, offset \in 0..(MaxEntries + 1), room \in 1..MaxRoom :
         LET r == fuse_readdir(inodes, ino, offset, room) IN
         lastOp' = Op("readdir", [ino |-> ino, offset |-> offset, room |-> room],
                      r.ok, r.err, [added |-> r.added],
                      IF offset = 0 /\ r.ok THEN Some([emitted |-> r.added])
                      ELSE None)
    /\ UNCHANGED <<tmp_files, mnt, scratch, probe, inodes, original, oci_layout, blobs, index_json, image, verity_map>>

\* The next call of a listing: the kernel asks again at the offset attached
\* to the last entry its buffer accepted, until a call emits nothing.
FuseReaddirResume ==
    /\ lastOp.op = "readdir"
    /\ lastOp.ok
    /\ lastOp.prev # None
    /\ lastOp.ret.added # <<>>
    /\ \E room \in 1..MaxRoom :
         LET ino == lastOp.args.ino
             offset == lastOp.ret.added[Len(lastOp.ret.added)].offset
             r == fuse_readdir(inodes, ino, offset, room)
         IN  lastOp' = Op("readdir", [ino |-> ino, offset |-> offset, room |-> room],
                          r.ok, r.err, [added |-> r.added],
                          IF r.ok
                          THEN Some([emitted |-> lastOp.prev[1].emitted \o r.added])
                          ELSE None)
    /\ UNCHANGED <<tmp_files, mnt, scratch, probe, inodes, original, oci_layout, blobs, index_json, image, verity_map>>

NextReaddir ==
    \/ ImageNew
    \/ BuildDir
    \/ FuseReaddirAt
    \/ FuseReaddirResume

SpecReaddir == Init /\ [][NextReaddir]_vars

\* ------------------------------------------------------------ the codecs
\* C::compress(f), write_all(b), end(): the file the compressor leaves
compress_to_file(c, b) == Compress(c, b)

\* C::decompress(f), seek(SeekFrom::Start(k)), read(&mut buf)
seek_read(c, file, k, buflen) == stream_read(Decompress(c, file), k, buflen)

CodecCompress ==
    /\ \E c \in Codecs, b \in BytesUpTo(MaxFileLen) :
         /\ scratch' = Some([codec |-> c, written |-> b,
                             file |-> compress_to_file(c, b)])
         /\ lastOp' = Op("compress", [c |-> c, b |-> b], TRUE, "", <<>>, None)
    /\ UNCHANGED <<tmp_files, mnt, oci_layout, blobs, index_json, image, inodes, original,
                   probe, verity_map>>

\* the buffers of the readers: one byte, or room for any input
CodecSeekRead ==
    /\ scratch # None
    /\ \E k \in 0..Len(scratch[1].written), buflen \in {1, MaxFileLen + 1} :
         lastOp' = Op("seek_read", [k |-> k, buflen |-> buflen], TRUE, "",
                      [data |-> seek_read(scratch[1].codec, scratch[1].file,
                                          k, buflen)], None)
    /\ UNCHANGED <<tmp_files, mnt, oci_layout, blobs, index_json, image, inodes, original,
                   probe, scratch, verity_map>>

NextCodec ==
    \/ CodecCompress
    \/ CodecSeekRead

SpecCodec == Init /\ [][NextCodec]_vars

\* ------------------------------------------------------ the build command
\* The unsigned arithmetic of the command line's min, avg and max, with
\* the u32 word narrowed to eight bits: values are 0..255 and a
\* subtraction below zero wraps around.
U32 == 256
sub_u32(a, b) == (a - b + U32) % U32

\* a validation that leaves out the first comparison
params_ok_unordered(min, avg, max) == avg < max /\ sub_u32(max, min) > avg

\* min < avg && avg < max && max - min > avg: the subtraction is reached
\* only behind the two comparisons
params_ok(min, avg, max) ==
    IF ~(min < avg) THEN FALSE
    ELSE IF ~(avg < max) THEN FALSE
    ELSE sub_u32(max, min) > avg

\* if let (Some(min), Some(avg), Some(max)) = (b.min, b.avg, b.max)
all_supplied(min, avg, max) == min # None /\ avg # None /\ max # None

\* the parameters handed to the builder: Some([min, avg, max]), None for the
\* defaults, or the failed assertion
parameters(min, avg, max) ==
    IF all_supplied(min, avg, max)
    THEN IF params_ok(min[1], avg[1], max[1])
         THEN [ok |-> TRUE, value |-> Some(<<min[1], avg[1], max[1]>>)]
         ELSE [ok |-> FALSE, value |-> None]
    ELSE [ok |-> TRUE, value |-> None]

\* the metadata of a one-file tree as bytes: a marker, then for every byte
\* of the file whether a chunk ends there
RECURSIVE cut_marks(_)
cut_marks(cut) ==
    IF cut = <<>> THEN <<>>
    ELSE [i \in 1..Head(cut) |-> IF i = Head(cut) THEN 1 ELSE 0]
         \o cut_marks(Tail(cut))

rootfs_bytes(cut) == <<2>> \o cut_marks(cut)

\* build_initial_rootfs::<Zstd>: the chunks, then the rootfs as a blob of
\* its own, whose descriptor is returned
build_initial_rootfs(store, content, cut) ==
    LET cs == put_chunks(store, content, cut) IN
    IF ~cs.ok THEN [ok |-> FALSE, store |-> cs.store, chunks |-> <<>>,
                    desc |-> <<>>, puts |-> <<>>]
    ELSE LET r == put_blob(cs.store, rootfs_bytes(cut), "zstd", "rootfs") IN
         [ok |-> r.ok, store |-> r.store, chunks |-> cs.chunks, desc |-> r.desc,
          puts |-> IF r.ok THEN <<r>> ELSE <<>>]

\* the values given for --min, --avg and --max: none of them, all three,
\* or only two
ParamValues == {0, 1, 2, U32 - 1}
ParamInputs ==
    {<<None, None, None>>, <<Some(2), None, Some(1)>>}
    \cup {<<Some(a), Some(b), Some(c)>> :
             a \in ParamValues, b \in ParamValues, c \in ParamValues}

\* main, SubCommand::Build without a base layer, on a directory that is
\* not mounted
MainBuild ==
    /\ inodes = NoInodes
    /\ mnt.pc = "idle"
    /\ \E p \in ParamInputs, tag \in Tags :
         LET params == parameters(p[1], p[2], p[3])
             args == [min |-> p[1], avg |-> p[2], max |-> p[3], tag |-> tag]
             store == create_blob_dir(blobs)
         IN
         /\ oci_layout' = write_layout(oci_layout)
         /\ image' = TRUE
         /\ IF ~params.ok
            THEN /\ blobs' = store
                 /\ lastOp' = Op("build_cmd", args, FALSE, "panic",
                                 [chunks |-> 0], None)
                 /\ UNCHANGED <<tmp_files, index_json, inodes, original, verity_map>>
            ELSE \E content \in BytesUpTo(MaxFileLen) :
                 \E cut \in Cuts(Len(content)) :
                 LET built == build_initial_rootfs(store, content, cut)
                     tagged == add_tag(built.store, index_json, tag,
                                       built.desc[1])
                 IN
                 /\ built.ok /\ tagged.ok
                 /\ Cardinality(DOMAIN built.store) <= MaxBlobs + 1
                 /\ blobs' = built.store
                 /\ index_json' = tagged.file
                 /\ inodes' = [i \in {ROOT_INO, FILE_INO} |->
                                 IF i = ROOT_INO
                                 THEN [mode |-> "Dir",
                                       entries |-> <<<<"a.txt", FILE_INO>>>>]
                                 ELSE [mode |-> "File", chunks |-> built.chunks]]
                 /\ original' = [i \in {FILE_INO} |-> content]
                 /\ verity_map' = verity_map
                 /\ lastOp' = Op("build_cmd", args, TRUE, "",
                                 [chunks |-> Len(built.chunks)], None)
    /\ UNCHANGED <<tmp_files, mnt, probe, scratch>>

NextBuild ==
    \/ MainBuild
    \/ GetIndex

SpecBuild == Init /\ [][NextBuild]_vars

\* ------------------------------------------------------ the mount command
\* reader::mount / spawn_mount get as far as a served filesystem when the
\* tag is in the index and its rootfs blob is in the store
mount_opens(store, file, tag) ==
    LET i == get_index(file) IN
    /\ i.ok
    /\ find_tag(i.index, tag) # None
    /\ blob_path(find_tag(i.index, tag)[1].digest) \in DOMAIN store

\* main, SubCommand::Mount, up to the blocking call of either branch:
\* Image::new, then in the foreground the channel, the ctrl-C handler and
\* spawn_mount with the named pipe of --init-pipe, and otherwise the
\* unnamed pipe and the fork of daemonize.start()
MountStart ==
    /\ mnt.pc = "idle"
    /\ \E foreground \in BOOLEAN, init_pipe \in {None, Some("init-pipe")},
          tag \in Tags :
         LET opens == mount_opens(create_blob_dir(blobs), index_json, tag) IN
         /\ mnt' = IF foreground
                   THEN IF opens
                        THEN [mnt EXCEPT !.pc = "waiting", !.foreground = TRUE,
                                         !.init_pipe = init_pipe,
                                         !.fuse = "serving", !.guard = "alive",
                                         !.named_pipe =
                                             IF init_pipe = None THEN 0 ELSE 1]
                        ELSE [mnt EXCEPT !.pc = "failed", !.foreground = TRUE,
                                         !.init_pipe = init_pipe]
                   ELSE [mnt EXCEPT !.pc = "parent_reading",
                                    !.init_pipe = init_pipe,
                                    !.child = "mounting"]
         /\ lastOp' = Op("mount", [foreground |-> foreground,
                                   init_pipe |-> init_pipe, tag |-> tag],
                         TRUE, "", <<>>, None)
    /\ oci_layout' = write_layout(oci_layout)
    /\ blobs' = create_blob_dir(blobs)
    /\ image' = TRUE
    /\ UNCHANGED <<tmp_files, index_json, inodes, original, probe, scratch, verity_map>>

\* the daemon child: mount(image, tag, mountpoint, options,
\* Some(PipeDescriptor::UnnamedPipe(init_notify))) writes one byte to the
\* pipe it was given when the filesystem is ready, or fails
ChildMount ==
    /\ mnt.child = "mounting"
    /\ mnt' = IF mount_opens(blobs, index_json, lastOp.args.tag)
              THEN [mnt EXCEPT !.child = "serving", !.unnamed_pipe = @ + 1]
              ELSE [mnt EXCEPT !.child = "failed"]
    /\ UNCHANGED <<tmp_files, oci_layout, blobs, index_json, image, inodes, original,
                   probe, scratch, verity_map, lastOp>>

\* the daemon child's mount returns when the filesystem is unmounted
ChildUnmounted ==
    /\ mnt.child = "serving"
    /\ mnt' = [mnt EXCEPT !.child = "done"]
    /\ UNCHANGED <<tmp_files, oci_layout, blobs, index_json, image, inodes, original,
                   probe, scratch, verity_map, lastOp>>

\* the parent's exit_action: recv.read_exact(&mut read_buffer), then exit.
\* The parent holds the write end too, so the read never sees end-of-file.
ParentRead ==
    /\ mnt.pc = "parent_reading"
    /\ mnt.unnamed_pipe > 0
    /\ mnt' = [mnt EXCEPT !.pc = "parent_exited", !.unnamed_pipe = @ - 1]
    /\ UNCHANGED <<tmp_files, oci_layout, blobs, index_json, image, inodes, original,
                   probe, scratch, verity_map, lastOp>>

\* the ctrl-C handler: send_ctrlc.send(())
CtrlC ==
    /\ mnt.pc = "waiting"
    /\ mnt.ctrlc < MaxSignals
    /\ mnt' = [mnt EXCEPT !.ctrlc = @ + 1, !.chan = @ + 1,
                          !.events = @ \cup {"ctrl-c"}]
    /\ UNCHANGED <<tmp_files, oci_layout, blobs, index_json, image, inodes, original,
                   probe, scratch, verity_map, lastOp>>

\* the FUSE thread ends because the filesystem was unmounted, and tells so
\* on fuse_thread_finished
FuseUnmounted ==
    /\ mnt.fuse = "serving"
    /\ mnt.pc = "waiting"
    /\ mnt' = [mnt EXCEPT !.fuse = "finished", !.chan = @ + 1,
                          !.events = @ \cup {"unmounted"}]
    /\ UNCHANGED <<tmp_files, oci_layout, blobs, index_json, image, inodes, original,
                   probe, scratch, verity_map, lastOp>>

\* a recv that does not wait for a message
recv_ready_at_once(chan) == TRUE

\* recv.recv(): blocks while the channel is empty
recv_ready(chan) == chan > 0

\* main behind recv.recv().unwrap(): Ok(()) is returned and _guard is
\* dropped, which unmounts
MainRecv ==
    /\ mnt.pc = "waiting"
    /\ recv_ready(mnt.chan)
    /\ mnt' = [mnt EXCEPT !.pc = "returned", !.chan = Max(@ - 1, 0),
                          !.guard = "dropped", !.fuse = "finished"]
    /\ UNCHANGED <<tmp_files, oci_layout, blobs, index_json, image, inodes, original,
                   probe, scratch, verity_map, lastOp>>

NextMount ==
    \/ MainBuild
    \/ MountStart
    \/ ChildMount
    \/ ChildUnmounted
    \/ ParentRead
    \/ CtrlC
    \/ FuseUnmounted
    \/ MainRecv

SpecMount == Init /\ [][NextMount]_vars

\* main blocked in recv is woken once the channel holds a message
SpecMountFair == SpecMount /\ WF_vars(MainRecv)

\* The foreground branch has ended: _guard and recv, its locals, are dropped
\* when main leaves the block behind recv.recv().
receiver_dropped(m) == m.foreground /\ m.pc = "returned"

\* a ctrl-C that arrives after main left the block and before the process
\* exits: the handler thread still runs, send_ctrlc.send(()) finds no
\* receiver and the unwrap panics
CtrlCLate ==
    /\ receiver_dropped(mnt)
    /\ mnt.ctrlc < MaxSignals
    /\ mnt' = [mnt EXCEPT !.ctrlc = @ + 1, !.late = @ \cup {"ctrl-c"}]
    /\ UNCHANGED <<tmp_files, oci_layout, blobs, index_json, image, inodes, original,
                   probe, scratch, verity_map, lastOp>>

\* main returns Ok(()) and the process exits, which ends the handler thread
MainExit ==
    /\ mnt.pc = "returned"
    /\ mnt' = [mnt EXCEPT !.pc = "exited"]
    /\ UNCHANGED <<tmp_files, oci_layout, blobs, index_json, image, inodes, original,
                   probe, scratch, verity_map, lastOp>>

\* The foreground mount with the end of the process in it.
NextMountExit ==
    \/ MainBuild
    \/ MountStart
    \/ ChildMount
    \/ ChildUnmounted
    \/ ParentRead
    \/ CtrlC
    \/ FuseUnmounted
    \/ MainRecv
    \/ CtrlCLate
    \/ MainExit

SpecMountExit == Init /\ [][NextMountExit]_vars

\* =================================================================== claims
\* the manifests get_index reads from index.json (none when there is no file)
Manifests ==
    LET got == get_index(index_json) IN
    IF got.ok THEN got.index.manifests ELSE <<>>

Holders(ms, name) == {i \in 1..Len(ms) : get_name(ms[i]) = Some(name)}

TagsUnique(ms) == \A t \in Tags : Cardinality(Holders(ms, t)) <= 1

\* C1: a successful add_tag on an index in which no two descriptors carry the
\* same name annotation leaves an index in which no two descriptors carry the
\* same name annotation; so any sequence of add_tag calls from such an index
\* (the empty one too) keeps the tags unique.
C1_AddTagKeepsTagsUnique ==
    [][(lastOp'.op = "add_tag" /\ lastOp'.ok)
        => LET before == Manifests
               after == Manifests'
           IN  TagsUnique(before) => TagsUnique(after)]_vars

\* a tag was moved from one descriptor to another and the tags are unique
C1_Witness ==
    /\ lastOp.op = "add_tag" /\ lastOp.ok /\ lastOp.prev # None
    /\ Len(Manifests) = 2
    /\ TagsUnique(Manifests)

\* C2: after add_tag(n, d1) directly followed by add_tag(n, d2), exactly one
\* descriptor of the index is annotated n, it has digest d2, and a descriptor
\* with digest d1 is still in the index without a name annotation.
C2_TagReplace ==
    (lastOp.op = "add_tag" /\ lastOp.ok /\ lastOp.prev # None) =>
        LET ms == Manifests
            n  == lastOp.args.name
            d1 == lastOp.prev[1]
            d2 == lastOp.args.digest
        IN  /\ Cardinality(Holders(ms, n)) = 1
            /\ \A i \in Holders(ms, n) : ms[i].digest = d2
            /\ \E i \in 1..Len(ms) : ms[i].digest = d1 /\ get_name(ms[i]) = None

\* add_tag(n, d1) then add_tag(n, d2) with two different blobs
C2_Witness ==
    /\ lastOp.op = "add_tag" /\ lastOp.ok /\ lastOp.prev # None
    /\ lastOp.prev[1] # lastOp.args.digest

\* C3: put_blob(x) directly followed by put_blob(x) with the same codec and
\* media type: both calls succeed, they return equal descriptors, the second
\* call adds no file and places none, and exactly one blob file holds the
\* stored bytes of x.
C3_DoublePut ==
    (lastOp.op = "put_blob" /\ lastOp.prev # None) =>
        /\ lastOp.prev[1].ok
        /\ lastOp.ok
        /\ lastOp.ret.desc = lastOp.prev[1].desc
        /\ ~lastOp.ret.persisted
        /\ Cardinality(DOMAIN blobs) = lastOp.ret.files
        /\ Cardinality({n \in DOMAIN blobs :
                           blobs[n] = Compress(lastOp.args.c, lastOp.args.x)}) = 1

\* the same input was put twice in a row
C3_Witness ==
    /\ lastOp.op = "put_blob" /\ lastOp.prev # None /\ lastOp.ok
    /\ lastOp.args.c = "zstd"

\* C4: every file under blobs/sha256 is named by the lowercase hex SHA-256 of
\* the bytes stored in it; the file a successful put_blob leaves at its path
\* holds the compressed bytes, and with the identity codec the name is the
\* SHA-256 of the input.
C4_NameIsHashOfStoredBytes ==
    /\ \A n \in DOMAIN blobs : n = ToHex(Sha256(blobs[n]))
    /\ (lastOp.op = "put_blob" /\ lastOp.ok) =>
          /\ lastOp.ret.path \in DOMAIN blobs
          /\ blobs[lastOp.ret.path] = Compress(lastOp.args.c, lastOp.args.x)
          /\ lastOp.args.c = "noop" => lastOp.ret.path = ToHex(Sha256(lastOp.args.x))

\* a blob whose stored bytes differ from the input was placed
C4_Witness ==
    /\ lastOp.op = "put_blob" /\ lastOp.ok /\ lastOp.ret.persisted
    /\ lastOp.args.c = "zstd"
    /\ blobs[lastOp.ret.path] # lastOp.args.x

\* C5: the descriptor a successful put_blob returns has size equal to the byte
\* length of the blob file at blobs/sha256/<digest>.
C5_SizeIsFileLength ==
    (lastOp.op = "put_blob" /\ lastOp.ok) =>
        lastOp.ret.desc[1].size = Len(blobs[blob_path(lastOp.ret.desc[1].digest)])

\* C6: when a file already exists at the path of the digest put_blob computed,
\* put_blob succeeds exactly if the SHA-256 of that file's content equals the
\* digest; otherwise it fails with AlreadyExists and returns no descriptor.
C6_ExistingBlobChecked ==
    (lastOp.op = "put_blob" /\ lastOp.ret.existed) =>
        LET D == Sha256(Compress(lastOp.args.c, lastOp.args.x)) IN
        /\ lastOp.ret.path = ToHex(D)
        /\ lastOp.ok <=> (Sha256(blobs[lastOp.ret.path]) = D)
        /\ ~lastOp.ok => (lastOp.err = "AlreadyExists" /\ lastOp.ret.desc = None)
        /\ lastOp.ok => lastOp.ret.desc # None

\* put_blob met a file under its digest whose content has another hash
C6_Witness ==
    /\ lastOp.op = "put_blob" /\ lastOp.ret.existed
    /\ ~lastOp.ok /\ lastOp.err = "AlreadyExists"

\* C7: no step of Image::new, Image::open, put_blob, add_tag, put_index or
\* fill_from_chunk removes a blob file or changes its content; the only step
\* that changes the directory is a put_blob that places one file at a path
\* that did not exist.
C7_BlobsNeverChange ==
    [][/\ \A n \in DOMAIN blobs : n \in DOMAIN blobs' /\ blobs'[n] = blobs[n]
       /\ blobs' # blobs =>
             /\ lastOp'.op = "put_blob"
             /\ DOMAIN blobs' \ DOMAIN blobs = {lastOp'.ret.path}
       /\ (lastOp'.op = "put_blob" /\ lastOp'.ret.persisted) =>
             ~lastOp'.ret.existed]_vars

\* a put_blob found its blob already there, after other calls on the image
C7_Witness ==
    /\ lastOp.op = "put_blob" /\ lastOp.ret.existed /\ ~lastOp.ret.persisted
    /\ index_json # None

\* C8: Image::open on a directory with an oci-layout file returns an Image
\* exactly if the recorded imageLayoutVersion is "puzzlefs-dev", and fails
\* with InvalidImageVersion for any other version; directly after Image::new
\* it succeeds.
C8_OpenChecksVersion ==
    lastOp.op = "open" =>
        /\ lastOp.args.layout # None =>
              /\ lastOp.ok <=>
                    (lastOp.args.layout[1].imageLayoutVersion = "puzzlefs-dev")
              /\ ~lastOp.ok => lastOp.err = "InvalidImageVersion"
        /\ lastOp.prev = Some([after |-> "new"]) => lastOp.ok

\* Image::open rejected a directory with another layout version
C8_Witness ==
    /\ lastOp.op = "open" /\ ~lastOp.ok
    /\ lastOp.args.layout = Some(OCILayout(ForeignLayoutVersion))
    /\ lastOp.err = "InvalidImageVersion"

\* C9: with verity data supplied, fill_from_chunk delivers bytes only from a
\* blob whose fingerprint matched the recorded one; a digest without an entry
\* fails with InvalidFsVerityData before the blob is opened, and a mismatching
\* blob fails with an I/O error before any seek or read; a failed call
\* delivers no bytes.
C9_VerityGuardsChunk ==
    (lastOp.op = "fill_from_chunk" /\ lastOp.args.verity_data # None) =>
        LET d    == lastOp.args.chunk.digest
            vmap == lastOp.args.verity_data[1]
            path == ToHex(d)
        IN  /\ lastOp.ok =>
                  /\ d \in DOMAIN vmap
                  /\ path \in DOMAIN blobs
                  /\ get_fs_verity_digest(blobs[path]) = vmap[d]
            /\ d \notin DOMAIN vmap =>
                  /\ ~lastOp.ok /\ lastOp.err = "InvalidFsVerityData"
                  /\ lastOp.ret.steps = <<>>
            /\ (d \in DOMAIN vmap /\ path \in DOMAIN blobs
                 /\ get_fs_verity_digest(blobs[path]) # vmap[d]) =>
                  /\ ~lastOp.ok /\ lastOp.err = "Io"
                  /\ lastOp.ret.steps = <<"open", "check_fs_verity">>
            /\ ~lastOp.ok => lastOp.ret.data = <<>>

\* a chunk of a corrupted blob was asked for with its recorded fingerprint
C9_Witness ==
    /\ lastOp.op = "fill_from_chunk" /\ lastOp.args.verity_data # None
    /\ lastOp.args.chunk.digest \in DOMAIN lastOp.args.verity_data[1]
    /\ ToHex(lastOp.args.chunk.digest) \in DOMAIN blobs
    /\ Sha256(blobs[ToHex(lastOp.args.chunk.digest)]) # lastOp.args.chunk.digest
    /\ ~lastOp.ok /\ lastOp.err = "Io"

\* the logical size of a file inode
file_size(ino) == SumLengths(inodes[ino].chunks)

\* C10: a FUSE read of (I, offset, size) on a file inode I with
\* offset + size <= file_size(I) replies with exactly the size bytes of the
\* original file content that start at offset, also across chunk boundaries.
C10_ReadReturnsSlice ==
    (/\ lastOp.op = "read"
     /\ lastOp.args.ino \in DOMAIN inodes
     /\ inodes[lastOp.args.ino].mode = "File"
     /\ lastOp.args.offset + lastOp.args.size <= file_size(lastOp.args.ino)) =>
        /\ lastOp.ok
        /\ lastOp.ret.data = SubSeq(original[lastOp.args.ino],
                                    lastOp.args.offset + 1,
                                    lastOp.args.offset + lastOp.args.size)

\* a read that starts inside the first chunk and ends in a later one
C10_Witness ==
    /\ lastOp.op = "read" /\ lastOp.ok
    /\ lastOp.args.ino = FILE_INO
    /\ Len(inodes[FILE_INO].chunks) >= 2
    /\ lastOp.args.offset > 0
    /\ lastOp.args.offset < inodes[FILE_INO].chunks[1].length
    /\ lastOp.args.offset + lastOp.args.size > inodes[FILE_INO].chunks[1].length
    /\ lastOp.args.offset + lastOp.args.size <= file_size(FILE_INO)
    /\ Len(lastOp.ret.data) = lastOp.args.size

\* C11: every mutating request is answered with EROFS, whatever its
\* arguments and whatever the state, and the step changes nothing of the
\* image or of the adapter.
C11_MutatingRejected ==
    [][lastOp'.op \in MutatingOps =>
         /\ ~lastOp'.ok
         /\ lastOp'.err = "EROFS"
         /\ UNCHANGED <<mnt, scratch, probe, oci_layout, blobs, index_json, image, inodes, original,
                        verity_map>>]_vars

\* a write has been rejected on a built image
C11_Witness ==
    /\ lastOp.op = "write" /\ lastOp.err = "EROFS"
    /\ FILE_INO \in DOMAIN inodes

\* C12: open and opendir succeed exactly when every flag bit of the request
\* is one of read-only, path, non-blocking, directory; any other bit, known
\* to the flag type or not, is answered with EROFS.
C12_OpenFlagsChecked ==
    lastOp.op \in {"open", "opendir"} =>
        /\ lastOp.ok <=> lastOp.args.flags \subseteq allowed_flags
        /\ ~lastOp.ok => lastOp.err = "EROFS"

\* C13: statfs answers zero in every block, file and size field, and a
\* longest name of 255.
C13_StatfsNamelen ==
    lastOp.op = "statfs" =>
        /\ \A f \in {"blocks", "bfree", "bavail", "files", "ffree", "bsize",
                      "frsize"} : lastOp.ret[f] = 0
        /\ lastOp.ret.namelen = 255

C17_BadParamsRejected ==
    [][(/\ lastOp'.op = "build_cmd"
        /\ all_supplied(lastOp'.args.min, lastOp'.args.avg, lastOp'.args.max)
        /\ ~(/\ lastOp'.args.min[1] < lastOp'.args.avg[1]
             /\ lastOp'.args.avg[1] < lastOp'.args.max[1]
             /\ lastOp'.args.max[1] - lastOp'.args.min[1] > lastOp'.args.avg[1]))
       => /\ ~lastOp'.ok
          /\ lastOp'.ret.chunks = 0
          /\ UNCHANGED <<blobs, index_json, inodes, original>>]_vars

\* a build refused for min >= avg, where max - min would wrap around
C17_Witness ==
    /\ lastOp.op = "build_cmd" /\ ~lastOp.ok
    /\ all_supplied(lastOp.args.min, lastOp.args.avg, lastOp.args.max)
    /\ lastOp.args.min[1] > lastOp.args.max[1]
    /\ lastOp.args.avg[1] < lastOp.args.max[1]
    /\ blobs = NoBlobs

\* C18: a mount without --foreground that was given --init-pipe has
\* written one byte to that pipe once its filesystem is served, and the
\* parent has not exited before the byte was written.
C18_DaemonNotifiesInitPipe ==
    (mnt.pc \in {"parent_reading", "parent_exited"} /\ mnt.init_pipe # None) =>
        /\ mnt.child \in {"serving", "done"} => mnt.named_pipe = 1
        /\ mnt.pc = "parent_exited" => mnt.named_pipe = 1

\* C19: in a foreground mount main holds the guard while it waits, returns
\* only after ctrl-C or the unmount has sent its message, and after either
\* of them it does return, with the mount dropped.
C19_ForegroundWaits ==
    /\ [](mnt.pc = "waiting" => mnt.guard = "alive")
    /\ [](mnt.pc = "returned" => mnt.events # {})
    /\ (mnt.foreground /\ mnt.events # {})
          ~> (mnt.pc = "returned" /\ mnt.guard = "dropped")

\* main has returned after an unmount, with no ctrl-C
C19_Witness ==
    /\ mnt.foreground /\ mnt.pc = "returned"
    /\ mnt.events = {"unmounted"}
    /\ mnt.guard = "dropped"

\* C20: for a chunk that lies inside its blob and an additional offset
\* inside the chunk, fill_from_chunk delivers exactly
\* n = min(chunk.length - addl_offset, buf.len()) bytes, those of the blob
\* from chunk.offset + addl_offset on: none from behind the chunk's end,
\* and not fewer than n.
C20_ChunkBytesExact ==
    (/\ lastOp.op = "fill_from_chunk" /\ lastOp.ok
     /\ blob_path(lastOp.args.chunk.digest) \in DOMAIN blobs
     /\ lastOp.args.chunk.offset + lastOp.args.chunk.length
            <= Len(blobs[blob_path(lastOp.args.chunk.digest)])
     /\ lastOp.args.addl_offset < lastOp.args.chunk.length) =>
        LET chunk == lastOp.args.chunk
            start == chunk.offset + lastOp.args.addl_offset
            n == Min(chunk.length - lastOp.args.addl_offset, lastOp.args.buflen)
        IN  lastOp.ret.data = SubSeq(blobs[blob_path(chunk.digest)],
                                     start + 1, start + n)

\* C21: the mount command leaves oci-layout, index.json and the blob files
\* as they are, and refuses a directory whose oci-layout does not carry the
\* expected version.
C21_MountDoesNotWrite ==
    [][(mnt.pc = "idle" /\ mnt'.pc # "idle") =>
         /\ UNCHANGED <<oci_layout, blobs, index_json>>
         /\ (oci_layout = None
             \/ oci_layout[1].imageLayoutVersion # PUZZLEFS_IMAGE_LAYOUT_VERSION)
                => (mnt'.pc = "failed" /\ mnt'.child = "none")]_vars

\* The descriptors held by an index file, parsable or not
Members(file) ==
    IF file = None THEN <<>>
    ELSE [m \in 1..Len(file[1]) |-> DescFromJson(file[1][m])]

same_blob(a, b) ==
    a.digest = b.digest /\ a.size = b.size /\ a.media_type = b.media_type

\* C22: whatever index.json holds, a successful add_tag(name, d) keeps every
\* descriptor of the file in place with its digest, size and media type,
\* takes the name away only from holders of `name`, appends d named `name`
\* as the one new descriptor, and leaves the other tags resolving as before.
C22_AddTagFrame ==
    [][(lastOp'.op = "add_tag" /\ lastOp'.ok) =>
         LET old == Members(index_json)
             new == Members(index_json')
             name == lastOp'.args.name
         IN  /\ Len(new) = Len(old) + 1
             /\ \A i \in 1..Len(old) :
                   /\ same_blob(new[i], old[i])
                   /\ \/ new[i] = old[i]
                      \/ (get_name(old[i]) = Some(name)
                          /\ new[i] = remove_name(old[i]))
             /\ new[Len(new)].digest = lastOp'.args.digest
             /\ get_name(new[Len(new)]) = Some(name)
             /\ \A t \in Tags \ {name} :
                   find_tag([manifests |-> new], t)
                     = find_tag([manifests |-> old], t)]_vars

\* C23: add_tag(name, d) fails when blobs/sha256/ holds no file for
\* d.digest and then leaves index.json exactly as it was; so every tagged
\* descriptor of the index refers to a blob file that exists.
TaggedBlobsExist ==
    \A i \in 1..Len(Manifests) :
       get_name(Manifests[i]) # None
          => blob_path(Manifests[i].digest) \in DOMAIN blobs

C23_MissingBlobNotTagged ==
    /\ []TaggedBlobsExist
    /\ [][(lastOp'.op = "add_tag"
            /\ blob_path(lastOp'.args.digest) \notin DOMAIN blobs)
              => (~lastOp'.ok /\ lastOp'.err = "Io"
                  /\ index_json' = index_json)]_vars

C23_Witness ==
    /\ lastOp.op = "add_tag"
    /\ ~lastOp.ok
    /\ lastOp.args.digest = MissingDigest
    /\ \E i \in 1..Len(Manifests) : get_name(Manifests[i]) # None

\* entry e_(i-1) of a directory as a listing reports it
listed(dir, i) ==
    [ino |-> dir.entries[i][2], offset |-> i,
     kind |-> IF inodes[dir.entries[i][2]].mode = "File"
              THEN "RegularFile" ELSE "Directory",
     name |-> dir.entries[i][1]]

\* C24: a listing that starts at offset 0 and resumes at the offset of the
\* last accepted entry emits the entries of dir_entries once each, in order,
\* e_i with offset i+1, whatever room the reply buffers have; a refused
\* entry opens the next call, and a call at offset >= n emits nothing.
C24_ReaddirResumes ==
    (lastOp.op = "readdir" /\ lastOp.args.ino \in DOMAIN inodes
       /\ inodes[lastOp.args.ino].mode = "Dir") =>
        LET dir == inodes[lastOp.args.ino]
            n == Len(dir.entries)
            added == lastOp.ret.added
        IN  /\ lastOp.ok
            /\ lastOp.args.offset >= n => added = <<>>
            /\ Len(added) = Min(lastOp.args.room, Max(0, n - lastOp.args.offset))
            /\ \A k \in 1..Len(added) :
                  added[k] = listed(dir, lastOp.args.offset + k)
            /\ lastOp.prev # None =>
                  LET emitted == lastOp.prev[1].emitted IN
                  /\ Len(emitted) <= n
                  /\ \A i \in 1..Len(emitted) : emitted[i] = listed(dir, i)
                  /\ added = <<>> => Len(emitted) = n

\* a listing of three entries, more than one reply buffer holds, ended by
\* the call that found nothing left
C24_Witness ==
    /\ lastOp.op = "readdir"
    /\ lastOp.prev # None
    /\ lastOp.args.offset = 3
    /\ lastOp.ret.added = <<>>
    /\ Len(lastOp.prev[1].emitted) = 3
    /\ lastOp.args.ino = ROOT_INO

\* C25: in foreground mount every send on the termination channel, by the
\* ctrl-C handler or by the FUSE thread, happens while main still holds the
\* receiver; none is made after the receiver was dropped.
C25_SendsFindReceiver == mnt.late = {}

\* C26: when put_blob has returned, with a descriptor or with any error, the
\* temporary file it made in the OCI directory is not there under its
\* temporary name; what put_blob calls add to the directory are files of
\* blobs/sha256/ only.
C26_NoTempFileLeft ==
    /\ tmp_files = {}
    /\ index_json = None
    /\ lastOp.op = "put_blob" =>
          /\ Cardinality(DOMAIN blobs) - lastOp.ret.files
                = (IF lastOp.ret.persisted THEN 1 ELSE 0)
          /\ lastOp.ret.persisted => lastOp.ret.path \in DOMAIN blobs

\* a put_blob that failed on a directory that holds blobs
C26_Witness ==
    /\ lastOp.op = "put_blob"
    /\ ~lastOp.ok
    /\ lastOp.err = "AlreadyExists"
    /\ DOMAIN blobs # {}
    /\ tmp_files = {}

====
